---- MODULE Spec2Model ----
(***************************************************************************)
(* Model of the tracking pixel server of src/app.py: the /track, /events   *)
(* and /health handlers, the events_lock and the events file.              *)
(*                                                                         *)
(* Strings that the code parses or compares (cid, cids, since, ts) are     *)
(* sequences of one-character strings; tid and key are only compared for   *)
(* (in)equality and emptiness and stay TLA+ strings.                       *)
(***************************************************************************)
EXTENDS Integers, Sequences, FiniteSets, TLC

(* ---------------------------- bounds ----------------------------------- *)
\* request slots: the number of handlers that run concurrently
NReq == 2
\* /track requests with a non-empty tid accepted in one behaviour
MaxTracks == 2
\* length of the log found on disk at start-up
MaxInitLen == 1
\* the clock runs from 0 to MaxClock
MaxClock == 1
\* storage operations (open for read, open for write, write) that may fail
MaxFaults == 1

Req == 1..NReq

(* ---------------------------- inputs ----------------------------------- *)
Tids == {"", "abc"}
Cids == {<<>>, <<"a">>}
CidsSmall == {<<"a">>}
Keys == {"", "secret", "wrong"}
\* raw values of the cids query parameter: absent/empty, "a", "a,b", " a", ","
CidsArgs == {<<>>, <<"a">>, <<"a", ",", "b">>, <<" ", "a">>, <<",">>}
KeysSmall == {"secret", "wrong"}
CidsArgsSmall == {<<>>}
SinceArgsSmall == {<<>>}
EnvKeys == {"", "secret"}

VARIABLES
    doc,          \* the content of EVENTS_FILE
    events_lock,  \* 0 when free, else the request that holds it
    TRACKER_KEY,  \* os.environ TRACKER_KEY ("" when unset)
    now,          \* the clock read by datetime.utcnow()
    pc,           \* the position of each request's handler
    req,          \* the route and the query arguments of each request
    event,        \* track: the local variable event
    events,       \* track, get_events: the local variable events
    resp,         \* the response returned by the handler
    obs,          \* history: what each request met in the store
    faults,       \* history: storage operations that failed so far
    nTracks,      \* history: /track requests with a tid accepted so far
    nReturned,    \* history: of those, the ones that returned
    initLog,      \* history: the log on disk at start-up
    appendOrder,  \* history: the events in the order of their saves
    returned      \* history: events whose /track returned after its save

vars == <<doc, events_lock, TRACKER_KEY, now, pc, req, event, events, resp,
          obs, faults, nTracks, nReturned, initLog, appendOrder, returned>>

(* ---------------------------- strings ---------------------------------- *)
\* code points of the characters that occur in timestamps and since values
Ord(c) ==
    CASE c = " " -> 32
      [] c = "," -> 44
      [] c = "." -> 46
      [] c = "0" -> 48
      [] c = "1" -> 49
      [] c = "2" -> 50
      [] c = "3" -> 51
      [] c = "4" -> 52
      [] c = "Z" -> 90
      [] c = "a" -> 97
      [] c = "b" -> 98

\* Python's str > str: by code point, a proper prefix is the smaller
RECURSIVE StrGT(_, _)
StrGT(s, t) ==
    IF s = <<>> THEN FALSE
    ELSE IF t = <<>> THEN TRUE
    ELSE IF Ord(Head(s)) # Ord(Head(t)) THEN Ord(Head(s)) > Ord(Head(t))
    ELSE StrGT(Tail(s), Tail(t))

\* Python's s.split(','): every comma separates, empty items are kept
RECURSIVE split(_)
split(s) ==
    IF s = <<>> THEN << <<>> >>
    ELSE LET rest == split(Tail(s))
         IN  IF Head(s) = ","
             THEN << <<>> >> \o rest
             ELSE << <<Head(s)>> \o Head(rest) >> \o Tail(rest)

Digit(n) == CASE n = 0 -> "0" [] n = 1 -> "1" [] n = 2 -> "2"
              [] n = 3 -> "3" [] n = 4 -> "4"

\* datetime.utcnow().isoformat() + 'Z' of clock value t. The clock counts
\* two microsecond ticks per second; isoformat() leaves out the fraction
\* when the microsecond is 0. The date and hour prefix, equal in every
\* timestamp, is left out.
isoformat(t) ==
    IF t % 2 = 0 THEN <<Digit(t \div 2), "Z">>
    ELSE <<Digit(t \div 2), ".", Digit(t % 2), "Z">>

SinceArgs == {<<>>} \cup {isoformat(t) : t \in 0..1}

(* ---------------------------- the store -------------------------------- *)
\* The document is missing, a JSON array of events ("list"), a file that
\* was truncated or partly written ("partial", not JSON), or a JSON object
\* with one member ("object").
Doc(kind, items) == [kind |-> kind, items |-> items]

\* a local variable that holds no value (yet, or any more)
NoValue == Doc("none", <<>>)

NoEvent == [tid |-> "", cid |-> <<>>, ts |-> <<>>, ip |-> "", ua |-> ""]

NewEvent(tid, cid, t) ==
    [tid |-> tid, cid |-> cid, ts |-> isoformat(t), ip |-> "ip", ua |-> "ua"]

\* the i-th event of a log written by an earlier run
SeedEvent(i) ==
    [tid |-> "old", cid |-> IF i % 2 = 1 THEN <<"b">> ELSE <<"a">>,
     ts |-> isoformat(0), ip |-> "ip", ua |-> "ua"]

SeedLog(n) == [i \in 1..n |-> SeedEvent(i)]

\* load_events(): the value json.load returns, [] for a missing file, for an
\* IOError (fail) and for a JSONDecodeError
load_events(d, fail) ==
    IF d.kind = "missing" THEN Doc("list", <<>>)
    ELSE IF fail THEN Doc("list", <<>>)
    ELSE IF d.kind = "partial" THEN Doc("list", <<>>)
    ELSE d

\* Python's len() of a loaded value (the object has one member)
len(v) == IF v.kind = "list" THEN Len(v.items) ELSE 1

\* the outcomes the next storage operation can have: a failure is possible
\* while the budget lasts
FailChoices(possible) ==
    IF possible /\ faults < MaxFaults THEN {FALSE, TRUE} ELSE {FALSE}

Count(fail) == IF fail THEN faults + 1 ELSE faults

(* ---------------------------- responses -------------------------------- *)
Response(status, kind, data, count) ==
    [status |-> status, kind |-> kind, data |-> data, count |-> count]

NoResponse == Response(0, "none", <<>>, 0)
\* Response(PIXEL_GIF, mimetype='image/gif', ...)
PIXEL_GIF == Response(200, "gif", <<>>, 0)
\* jsonify({'error': 'Invalid API key'}), 403
InvalidKey == Response(403, "error", <<>>, 0)
\* an exception that leaves the handler: Flask answers 500
ServerError == Response(500, "error", <<>>, 0)

NoArgs == [route |-> "none", tid |-> "", cid |-> <<>>, key |-> "",
           cids |-> <<>>, since |-> <<>>]

\* history of one request: another /track was in flight when it arrived
\* (overlap), a save was between its truncation and its last write when the
\* request loaded (midSave), its load met an IOError (readFail), its save
\* wrote the document (wrote), the items it loaded (loaded), appendOrder when
\* it loaded (hist), returned when it arrived (mustSee), the kind of the
\* document it loaded (kind)
NoObs == [overlap |-> FALSE, midSave |-> FALSE, readFail |-> FALSE,
          wrote |-> FALSE, loaded |-> <<>>, hist |-> <<>>, mustSee |-> {},
          kind |-> "none"]

InFlight(q) == pc[q] \in {"t_lock", "t_load", "t_open", "t_dump", "t_unlock"}

(* ---------------------------- requests --------------------------------- *)
\* A request arrives at an idle handler thread. The threads are
\* interchangeable: the lowest idle one takes it.
Arrives(r) ==
    /\ pc[r] = "idle"
    /\ \A q \in Req : q < r => pc[q] # "idle"

\* the values datetime.utcnow() can return: the clock never runs backwards
Clock == now..MaxClock

(* ---------------------------- /track ----------------------------------- *)
\* the handler records the event whatever the tid
TrackStartAnyTid(r, tid, cid, t) ==
    /\ Arrives(r)
    /\ nTracks < MaxTracks
    /\ now' = t
    /\ req' = [req EXCEPT ![r] = [NoArgs EXCEPT !.route = "track",
                                                !.tid = tid, !.cid = cid]]
    /\ event' = [event EXCEPT ![r] = NewEvent(tid, cid, t)]
    /\ pc' = [pc EXCEPT ![r] = "t_lock"]
    /\ nTracks' = nTracks + 1
    /\ obs' = [obs EXCEPT ![r].overlap = \E q \in Req : InFlight(q)]
    /\ UNCHANGED <<doc, events_lock, TRACKER_KEY, events, resp, faults,
                   nReturned, initLog, appendOrder, returned>>

\* lines 112-120 (and 126-129 when tid is empty); t is the value that
\* datetime.utcnow() returns at line 117
TrackStart(r, tid, cid, t) ==
    /\ Arrives(r)
    /\ tid # "" => nTracks < MaxTracks
    /\ now' = IF tid # "" THEN t ELSE now
    /\ req' = [req EXCEPT ![r] = [NoArgs EXCEPT !.route = "track",
                                                !.tid = tid, !.cid = cid]]
    /\ IF tid # ""
       THEN /\ event' = [event EXCEPT ![r] = NewEvent(tid, cid, t)]
            /\ pc' = [pc EXCEPT ![r] = "t_lock"]
            /\ nTracks' = nTracks + 1
            /\ obs' = [obs EXCEPT ![r].overlap = \E q \in Req : InFlight(q)]
            /\ UNCHANGED resp
       ELSE /\ resp' = [resp EXCEPT ![r] = PIXEL_GIF]
            /\ pc' = [pc EXCEPT ![r] = "done"]
            /\ UNCHANGED <<event, nTracks, obs>>
    /\ UNCHANGED <<doc, events_lock, TRACKER_KEY, events, faults,
                   nReturned, initLog, appendOrder, returned>>

\* the handler takes the lock although another request holds it
TrackAcquireHeld(r) ==
    /\ pc[r] = "t_lock"
    /\ events_lock' = r
    /\ pc' = [pc EXCEPT ![r] = "t_load"]
    /\ UNCHANGED <<doc, TRACKER_KEY, now, req, event, events, resp, obs,
                   faults, nTracks, nReturned, initLog, appendOrder, returned>>

\* the handler enters the locked section without the lock
TrackAcquireNoLock(r) ==
    /\ pc[r] = "t_lock"
    /\ pc' = [pc EXCEPT ![r] = "t_load"]
    /\ UNCHANGED <<doc, events_lock, TRACKER_KEY, now, req, event, events,
                   resp, obs, faults, nTracks, nReturned, initLog,
                   appendOrder, returned>>

\* line 121: with events_lock (acquire)
TrackAcquire(r) ==
    /\ pc[r] = "t_lock"
    /\ events_lock = 0
    /\ events_lock' = r
    /\ pc' = [pc EXCEPT ![r] = "t_load"]
    /\ UNCHANGED <<doc, TRACKER_KEY, now, req, event, events, resp, obs,
                   faults, nTracks, nReturned, initLog, appendOrder, returned>>

\* the handler puts the event in front of the loaded events
TrackLoadInsertFirst(r) ==
    /\ pc[r] = "t_load"
    /\ \E fail \in FailChoices(doc.kind # "missing") :
         LET v == load_events(doc, fail)
         IN  /\ faults' = Count(fail)
             /\ obs' = [obs EXCEPT ![r].readFail = fail, ![r].kind = doc.kind]
             /\ IF v.kind = "list"
                THEN /\ events' = [events EXCEPT
                                     ![r] = Doc("list", <<event[r]>> \o v.items)]
                     /\ pc' = [pc EXCEPT ![r] = "t_open"]
                     /\ UNCHANGED <<events_lock, resp, nReturned>>
                ELSE /\ events_lock' = 0
                     /\ resp' = [resp EXCEPT ![r] = ServerError]
                     /\ pc' = [pc EXCEPT ![r] = "done"]
                     /\ nReturned' = nReturned + 1
                     /\ UNCHANGED events
    /\ UNCHANGED <<doc, TRACKER_KEY, now, req, event, nTracks, initLog,
                   appendOrder, returned>>

\* lines 122-123: events = load_events(); events.append(event). A loaded
\* value that is no list has no append: the AttributeError leaves the with
\* block, which releases the lock, and the handler.
TrackLoad(r) ==
    /\ pc[r] = "t_load"
    /\ \E fail \in FailChoices(doc.kind # "missing") :
         LET v == load_events(doc, fail)
         IN  /\ faults' = Count(fail)
             /\ obs' = [obs EXCEPT ![r].readFail = fail, ![r].kind = doc.kind]
             /\ IF v.kind = "list"
                THEN /\ events' = [events EXCEPT
                                     ![r] = Doc("list", Append(v.items, event[r]))]
                     /\ pc' = [pc EXCEPT ![r] = "t_open"]
                     /\ UNCHANGED <<events_lock, resp, nReturned>>
                ELSE /\ events_lock' = 0
                     /\ resp' = [resp EXCEPT ![r] = ServerError]
                     /\ pc' = [pc EXCEPT ![r] = "done"]
                     /\ nReturned' = nReturned + 1
                     /\ UNCHANGED events
    /\ UNCHANGED <<doc, TRACKER_KEY, now, req, event, nTracks, initLog,
                   appendOrder, returned>>

\* line 105: open(EVENTS_FILE, 'w') truncates the file, or raises IOError
\* and leaves it as it is (lines 107-108)
TrackOpen(r) ==
    /\ pc[r] = "t_open"
    /\ \E fail \in FailChoices(TRUE) :
         /\ faults' = Count(fail)
         /\ IF fail
            THEN /\ pc' = [pc EXCEPT ![r] = "t_unlock"]
                 /\ UNCHANGED doc
            ELSE /\ doc' = Doc("partial", <<>>)
                 /\ pc' = [pc EXCEPT ![r] = "t_dump"]
    /\ UNCHANGED <<events_lock, TRACKER_KEY, now, req, event, events, resp,
                   obs, nTracks, nReturned, initLog, appendOrder, returned>>

\* line 106 and the end of the with block of line 105: json.dump and close
\* write the document, or raise IOError with the file left partly written
TrackDump(r) ==
    /\ pc[r] = "t_dump"
    /\ \E fail \in FailChoices(TRUE) :
         /\ faults' = Count(fail)
         /\ IF fail
            THEN UNCHANGED <<doc, obs, appendOrder>>
            ELSE /\ doc' = events[r]
                 /\ obs' = [obs EXCEPT ![r].wrote = TRUE]
                 /\ appendOrder' = Append(appendOrder, event[r])
    /\ pc' = [pc EXCEPT ![r] = "t_unlock"]
    /\ UNCHANGED <<events_lock, TRACKER_KEY, now, req, event, events, resp,
                   nTracks, nReturned, initLog, returned>>

\* the handler releases the lock only after a save that wrote
TrackReleaseAfterWrite(r) ==
    /\ pc[r] = "t_unlock"
    /\ events_lock' = IF obs[r].wrote THEN 0 ELSE events_lock
    /\ resp' = [resp EXCEPT ![r] = PIXEL_GIF]
    /\ pc' = [pc EXCEPT ![r] = "done"]
    /\ nReturned' = nReturned + 1
    /\ returned' = IF obs[r].wrote THEN returned \cup {event[r]} ELSE returned
    /\ event' = [event EXCEPT ![r] = NoEvent]
    /\ events' = [events EXCEPT ![r] = NoValue]
    /\ UNCHANGED <<doc, TRACKER_KEY, now, req, obs, faults, nTracks, initLog,
                   appendOrder>>

\* the end of the with block of line 121 (release), lines 125-129
TrackRelease(r) ==
    /\ pc[r] = "t_unlock"
    /\ events_lock' = 0
    /\ resp' = [resp EXCEPT ![r] = PIXEL_GIF]
    /\ pc' = [pc EXCEPT ![r] = "done"]
    /\ nReturned' = nReturned + 1
    /\ returned' = IF obs[r].wrote THEN returned \cup {event[r]} ELSE returned
    /\ event' = [event EXCEPT ![r] = NoEvent]
    /\ events' = [events EXCEPT ![r] = NoValue]
    /\ UNCHANGED <<doc, TRACKER_KEY, now, req, obs, faults, nTracks, initLog,
                   appendOrder>>

(* ---------------------------- /events ---------------------------------- *)
\* line 136: request.args.get('cids', '').split(',') if request.args.get('cids') else []
parse_cids(raw) == IF raw # <<>> THEN split(raw) ELSE <<>>

\* Python's x in list
InList(x, l) == \E i \in 1..Len(l) : l[i] = x

\* the since filter keeps the events with ts >= since
filter_events_ge(evs, cids, since) ==
    LET byCid == IF cids # <<>>
                 THEN SelectSeq(evs, LAMBDA e : InList(e.cid, cids))
                 ELSE evs
    IN  IF since # <<>>
        THEN SelectSeq(byCid, LAMBDA e : ~StrGT(since, e.ts))
        ELSE byCid

\* lines 140-143: the two list comprehensions
filter_events(evs, cids, since) ==
    LET byCid == IF cids # <<>>
                 THEN SelectSeq(evs, LAMBDA e : InList(e.cid, cids))
                 ELSE evs
    IN  IF since # <<>>
        THEN SelectSeq(byCid, LAMBDA e : StrGT(e.ts, since))
        ELSE byCid

\* the handler compares the key even when no TRACKER_KEY is set
EventsStartKeyOnly(r, key, cids, since) ==
    /\ Arrives(r)
    /\ IF key # TRACKER_KEY
       THEN /\ req' = [req EXCEPT ![r] = [NoArgs EXCEPT !.route = "events",
                                                       !.key = key]]
            /\ resp' = [resp EXCEPT ![r] = InvalidKey]
            /\ pc' = [pc EXCEPT ![r] = "done"]
            /\ UNCHANGED obs
       ELSE /\ req' = [req EXCEPT ![r] = [NoArgs EXCEPT !.route = "events",
                                                       !.key = key,
                                                       !.cids = cids,
                                                       !.since = since]]
            /\ obs' = [obs EXCEPT ![r].mustSee = returned]
            /\ pc' = [pc EXCEPT ![r] = "e_lock"]
            /\ UNCHANGED resp
    /\ UNCHANGED <<doc, events_lock, TRACKER_KEY, now, event, events, faults,
                   nTracks, nReturned, initLog, appendOrder, returned>>

\* the handler goes to the store before it looks at the key
EventsStartNoCheck(r, key, cids, since) ==
    /\ Arrives(r)
    /\ req' = [req EXCEPT ![r] = [NoArgs EXCEPT !.route = "events",
                                                !.key = key,
                                                !.cids = cids,
                                                !.since = since]]
    /\ obs' = [obs EXCEPT ![r].mustSee = returned]
    /\ pc' = [pc EXCEPT ![r] = "e_lock"]
    /\ UNCHANGED <<doc, events_lock, TRACKER_KEY, now, event, events, resp,
                   faults, nTracks, nReturned, initLog, appendOrder, returned>>

\* lines 133-137
EventsStart(r, key, cids, since) ==
    /\ Arrives(r)
    /\ IF TRACKER_KEY # "" /\ key # TRACKER_KEY
       THEN /\ req' = [req EXCEPT ![r] = [NoArgs EXCEPT !.route = "events",
                                                       !.key = key]]
            /\ resp' = [resp EXCEPT ![r] = InvalidKey]
            /\ pc' = [pc EXCEPT ![r] = "done"]
            /\ UNCHANGED obs
       ELSE /\ req' = [req EXCEPT ![r] = [NoArgs EXCEPT !.route = "events",
                                                       !.key = key,
                                                       !.cids = cids,
                                                       !.since = since]]
            /\ obs' = [obs EXCEPT ![r].mustSee = returned]
            /\ pc' = [pc EXCEPT ![r] = "e_lock"]
            /\ UNCHANGED resp
    /\ UNCHANGED <<doc, events_lock, TRACKER_KEY, now, event, events, faults,
                   nTracks, nReturned, initLog, appendOrder, returned>>

\* the handler loads without the lock
EventsAcquireNoLock(r) ==
    /\ pc[r] = "e_lock"
    /\ pc' = [pc EXCEPT ![r] = "e_load"]
    /\ UNCHANGED <<doc, events_lock, TRACKER_KEY, now, req, event, events,
                   resp, obs, faults, nTracks, nReturned, initLog,
                   appendOrder, returned>>

\* line 138: with events_lock (acquire)
EventsAcquire(r) ==
    /\ pc[r] = "e_lock"
    /\ events_lock = 0
    /\ events_lock' = r
    /\ pc' = [pc EXCEPT ![r] = "e_load"]
    /\ UNCHANGED <<doc, TRACKER_KEY, now, req, event, events, resp, obs,
                   faults, nTracks, nReturned, initLog, appendOrder, returned>>

\* line 139: events = load_events()
EventsLoad(r) ==
    /\ pc[r] = "e_load"
    /\ \E fail \in FailChoices(doc.kind # "missing") :
         LET v == load_events(doc, fail)
         IN  /\ faults' = Count(fail)
             /\ events' = [events EXCEPT ![r] = v]
             /\ obs' = [obs EXCEPT
                          ![r].midSave = \E q \in Req : pc[q] = "t_dump",
                          ![r].readFail = fail,
                          ![r].kind = doc.kind,
                          ![r].loaded = v.items,
                          ![r].hist = appendOrder]
    /\ pc' = [pc EXCEPT ![r] = "e_resp"]
    /\ UNCHANGED <<doc, events_lock, TRACKER_KEY, now, req, event, resp,
                   nTracks, nReturned, initLog, appendOrder, returned>>

\* the end of the with block of line 138 (release), lines 140-144. Over a
\* loaded object the comprehensions iterate its keys, and a str has no get:
\* the AttributeError leaves the handler.
EventsRespond(r) ==
    /\ pc[r] = "e_resp"
    /\ events_lock' = IF events_lock = r THEN 0 ELSE events_lock
    /\ LET cids == parse_cids(req[r].cids)
           since == req[r].since
       IN  resp' = [resp EXCEPT ![r] =
                IF events[r].kind = "list"
                THEN Response(200, "json",
                              filter_events(events[r].items, cids, since), 0)
                ELSE IF cids # <<>> \/ since # <<>>
                THEN ServerError
                ELSE Response(200, "json_object", <<>>, 0)]
    /\ events' = [events EXCEPT ![r] = NoValue]
    /\ pc' = [pc EXCEPT ![r] = "done"]
    /\ UNCHANGED <<doc, TRACKER_KEY, now, req, event, obs, faults, nTracks,
                   nReturned, initLog, appendOrder, returned>>

(* ---------------------------- /health ---------------------------------- *)
\* lines 148-153: len(load_events()), without the lock
Health(r) ==
    /\ Arrives(r)
    /\ \E fail \in FailChoices(doc.kind # "missing") :
         /\ faults' = Count(fail)
         /\ obs' = [obs EXCEPT
                      ![r].midSave = \E q \in Req : pc[q] = "t_dump",
                      ![r].readFail = fail,
                      ![r].kind = doc.kind,
                      ![r].hist = appendOrder]
         /\ resp' = [resp EXCEPT ![r] =
                Response(200, "health", <<>>, len(load_events(doc, fail)))]
    /\ req' = [req EXCEPT ![r] = [NoArgs EXCEPT !.route = "health"]]
    /\ pc' = [pc EXCEPT ![r] = "done"]
    /\ UNCHANGED <<doc, events_lock, TRACKER_KEY, now, event, events,
                   nTracks, nReturned, initLog, appendOrder, returned>>

(* ---------------------------- environment ------------------------------ *)
\* the handler has returned: its thread serves the next request
Recycle(r) ==
    /\ pc[r] = "done"
    /\ pc' = [pc EXCEPT ![r] = "idle"]
    /\ req' = [req EXCEPT ![r] = NoArgs]
    /\ event' = [event EXCEPT ![r] = NoEvent]
    /\ resp' = [resp EXCEPT ![r] = NoResponse]
    /\ obs' = [obs EXCEPT ![r] = NoObs]
    /\ UNCHANGED <<doc, events_lock, TRACKER_KEY, now, events, faults,
                   nTracks, nReturned, initLog, appendOrder, returned>>

(* ---------------------------- specification ---------------------------- *)
InitWith(d) ==
    /\ doc = d
    /\ events_lock = 0
    /\ TRACKER_KEY \in EnvKeys
    /\ now = 0
    /\ pc = [r \in Req |-> "idle"]
    /\ req = [r \in Req |-> NoArgs]
    /\ event = [r \in Req |-> NoEvent]
    /\ events = [r \in Req |-> NoValue]
    /\ resp = [r \in Req |-> NoResponse]
    /\ obs = [r \in Req |-> NoObs]
    /\ faults = 0
    /\ nTracks = 0
    /\ nReturned = 0
    /\ initLog = d.items
    /\ appendOrder = d.items
    /\ returned = {}

\* the documents this program writes, and no document
Init ==
    \E d \in {Doc("missing", <<>>)} \cup {Doc("list", SeedLog(n)) : n \in 0..MaxInitLen} :
        InitWith(d)

\* concurrent handlers; the query arguments that no interleaving depends on
\* are drawn from the small sets
Next ==
    \/ \E r \in Req, tid \in Tids, cid \in CidsSmall, t \in Clock : TrackStart(r, tid, cid, t)
    \/ \E r \in Req : TrackAcquire(r)
    \/ \E r \in Req : TrackLoad(r)
    \/ \E r \in Req : TrackOpen(r)
    \/ \E r \in Req : TrackDump(r)
    \/ \E r \in Req : TrackRelease(r)
    \/ \E r \in Req, key \in KeysSmall, cids \in CidsArgsSmall, since \in SinceArgsSmall :
          EventsStart(r, key, cids, since)
    \/ \E r \in Req : EventsAcquire(r)
    \/ \E r \in Req : EventsLoad(r)
    \/ \E r \in Req : EventsRespond(r)
    \/ \E r \in Req : Health(r)
    \/ \E r \in Req : Recycle(r)

Spec == Init /\ [][Next]_vars

\* Scheduling: a handler thread that can take a step takes it (the server
\* runs every request thread), and a thread that waits for events_lock gets
\* it if the lock is free again and again.
Fairness ==
    \A r \in Req :
        /\ SF_vars(TrackAcquire(r))
        /\ SF_vars(EventsAcquire(r))
        /\ WF_vars(TrackLoad(r))
        /\ WF_vars(TrackOpen(r))
        /\ WF_vars(TrackDump(r))
        /\ WF_vars(TrackRelease(r))
        /\ WF_vars(EventsLoad(r))
        /\ WF_vars(EventsRespond(r))

SpecFair == Init /\ [][Next]_vars /\ Fairness

\* one handler at a time, every argument
NextSeq ==
    \/ \E tid \in Tids, cid \in Cids, t \in Clock : TrackStart(1, tid, cid, t)
    \/ TrackAcquire(1)
    \/ TrackLoad(1)
    \/ TrackOpen(1)
    \/ TrackDump(1)
    \/ TrackRelease(1)
    \/ \E key \in Keys, cids \in CidsArgs, since \in SinceArgs :
          EventsStart(1, key, cids, since)
    \/ EventsAcquire(1)
    \/ EventsLoad(1)
    \/ EventsRespond(1)
    \/ Health(1)
    \/ Recycle(1)

SpecSeq == Init /\ [][NextSeq]_vars

\* any document may be found on disk: none, an array, a truncated file, an
\* object
InitAnyDoc ==
    \E d \in {Doc("missing", <<>>), Doc("partial", <<>>), Doc("object", <<>>)}
              \cup {Doc("list", SeedLog(n)) : n \in 0..MaxInitLen} :
        InitWith(d)

SpecAnyDoc == InitAnyDoc /\ [][NextSeq]_vars

(* ---------------------------- definitions for the claims --------------- *)
\* the log a load without an IOError reads from the document
PersistedLog == load_events(doc, FALSE).items

IsTrack(r) == req[r].route = "track"
IsEvents(r) == req[r].route = "events"
Returned(r) == pc[r] = "done"

(* ---------------------------- C1 --------------------------------------- *)
\* C1: no lost updates. When no storage operation has failed and every
\* accepted /track request with a non-empty tid has returned, the persisted
\* log holds the k events it started with and one event per request, in the
\* order of the saves: Len = k + N.
C1_NoLostUpdates ==
    (faults = 0 /\ nReturned = nTracks) =>
        /\ Len(PersistedLog) = Len(initLog) + nTracks
        /\ PersistedLog = appendOrder

\* two /track requests that overlapped have both returned
C1_Witness ==
    /\ faults = 0
    /\ nTracks = 2
    /\ nReturned = 2
    /\ Len(initLog) = 1
    /\ \E r \in Req : IsTrack(r) /\ Returned(r) /\ obs[r].overlap

(* ---------------------------- C2 --------------------------------------- *)
\* C2: every /track request that has returned was answered 200 with the
\* pixel, whatever the document holds and whichever storage operation failed.
C2_AlwaysPixel ==
    \A r \in Req : (IsTrack(r) /\ Returned(r)) => resp[r] = PIXEL_GIF

(* ---------------------------- C3 --------------------------------------- *)
IsPrefix(s, t) == Len(s) <= Len(t) /\ SubSeq(t, 1, Len(s)) = s

\* C3: the log is append-only. While no storage operation fails, every
\* step leaves the persisted log as it is or extends it by one event at the
\* end.
C3_AppendOnly ==
    [][faults' = 0 =>
          \/ PersistedLog' = PersistedLog
          \/ /\ Len(PersistedLog') = Len(PersistedLog) + 1
             /\ IsPrefix(PersistedLog, PersistedLog')]_vars

(* ---------------------------- C4 --------------------------------------- *)
\* C4: /events never reads a torn document. When a /events request loads,
\* no save is between its truncation and its last write, and while no
\* storage operation has failed what it loads is the complete log of the
\* saves made so far.
C4_NoTornRead ==
    \A r \in Req :
        (IsEvents(r) /\ pc[r] \in {"e_resp", "done"} /\ resp[r] # InvalidKey) =>
            /\ ~obs[r].midSave
            /\ faults = 0 => obs[r].loaded = obs[r].hist

\* a /events request has loaded while a /track request waits for the lock
C4_Witness ==
    \E r, q \in Req :
        /\ IsEvents(r) /\ pc[r] = "e_resp"
        /\ IsTrack(q) /\ pc[q] = "t_lock"
        /\ Len(obs[r].loaded) > 0

(* ---------------------------- C5 --------------------------------------- *)
\* the campaign IDs and the since value of a request admit the event
Admits(S, T, e) ==
    /\ S = {} \/ e.cid \in S
    /\ T = <<>> \/ StrGT(e.ts, T)

CidSet(r) == {parse_cids(req[r].cids)[i] : i \in 1..Len(parse_cids(req[r].cids))}

\* C5: read-your-writes. A /events request answered 200, whose own load met
\* no IOError, returns an element with the tid and cid of every event whose
\* /track request had returned, its save done, before the /events request
\* arrived, and which the filters admit.
C5_ReadYourWrites ==
    \A r \in Req :
        (IsEvents(r) /\ Returned(r) /\ resp[r].status = 200 /\ ~obs[r].readFail) =>
            \A e \in obs[r].mustSee :
                Admits(CidSet(r), req[r].since, e) =>
                    \E i \in 1..Len(resp[r].data) :
                        /\ resp[r].data[i].tid = e.tid
                        /\ resp[r].data[i].cid = e.cid

(* ---------------------------- C6 --------------------------------------- *)
\* C6: a /track request with an empty tid returns the pixel in the step in
\* which it arrives, and that step changes neither the document nor the
\* lock, and counts no event.
C6_EmptyTidRecordsNothing ==
    [][\A r \in Req :
          (pc[r] = "idle" /\ pc'[r] # "idle" /\ req'[r].route = "track"
                         /\ req'[r].tid = "") =>
              /\ pc'[r] = "done"
              /\ resp'[r] = PIXEL_GIF
              /\ doc' = doc
              /\ events_lock' = events_lock
              /\ event'[r] = NoEvent
              /\ appendOrder' = appendOrder]_vars

\* a /track request with an empty tid has returned, the log not empty
C6_Witness ==
    \E r \in Req :
        /\ IsTrack(r) /\ req[r].tid = "" /\ Returned(r)
        /\ Len(PersistedLog) > 0

(* ---------------------------- C7 --------------------------------------- *)
Rejects(key) == TRACKER_KEY # "" /\ key # TRACKER_KEY

\* C7: a /events request is answered 403 exactly when TRACKER_KEY is not
\* empty and the key differs from it, and only a request that is not
\* rejected goes on to the store; with no TRACKER_KEY every request is
\* answered 200 with the event data.
C7_Authorization ==
    \A r \in Req :
        IsEvents(r) =>
            /\ pc[r] \in {"e_lock", "e_load", "e_resp"} => ~Rejects(req[r].key)
            /\ Returned(r) =>
                  /\ resp[r].status = 403 <=> Rejects(req[r].key)
                  /\ TRACKER_KEY = "" =>
                        resp[r].status = 200 /\ resp[r].kind = "json"

\* with no TRACKER_KEY a request with a key was served the events
C7_Witness ==
    \E r \in Req :
        /\ IsEvents(r) /\ Returned(r)
        /\ TRACKER_KEY = "" /\ req[r].key = "wrong"
        /\ resp[r].status = 200 /\ Len(resp[r].data) > 0

(* ---------------------------- C8 --------------------------------------- *)
\* C8: a rejected /events request is answered in the step in which it
\* arrives with the one response InvalidKey, which holds no event, whatever
\* the log holds; the step reads no document (no IOError, nothing loaded)
\* and leaves the lock as it is.
C8_RejectedLeaksNothing ==
    [][\A r \in Req :
          (pc[r] = "idle" /\ pc'[r] # "idle" /\ req'[r].route = "events"
                         /\ Rejects(req'[r].key)) =>
              /\ pc'[r] = "done"
              /\ resp'[r] = InvalidKey
              /\ events'[r] = NoValue
              /\ obs'[r] = NoObs
              /\ faults' = faults
              /\ events_lock' = events_lock
              /\ doc' = doc]_vars

\* a request with a wrong key was rejected over a log that holds events
C8_Witness ==
    \E r \in Req :
        /\ IsEvents(r) /\ Returned(r)
        /\ TRACKER_KEY = "secret" /\ req[r].key = "wrong"
        /\ resp[r] = InvalidKey
        /\ Len(PersistedLog) > 0

(* ---------------------------- C9 --------------------------------------- *)
\* queryFiltered of the specification: the subsequence of the admitted events
QueryFiltered(log, S, T) == SelectSeq(log, LAMBDA e : Admits(S, T, e))

\* C9: the events a /events request returns are the subsequence, in storage
\* order, of the log it loaded that the campaign IDs and the since value
\* admit; no returned event has ts equal to since.
C9_FilterSemantics ==
    \A r \in Req :
        (IsEvents(r) /\ Returned(r) /\ resp[r].kind = "json") =>
            /\ resp[r].data = QueryFiltered(obs[r].loaded, CidSet(r), req[r].since)
            /\ \A i \in 1..Len(resp[r].data) : resp[r].data[i].ts # req[r].since

\* both filters given: an event with ts equal to since was left out and
\* another event was returned
C9_Witness ==
    \E r \in Req :
        /\ IsEvents(r) /\ Returned(r) /\ resp[r].kind = "json"
        /\ req[r].cids # <<>> /\ req[r].since # <<>>
        /\ \E i \in 1..Len(obs[r].loaded) : obs[r].loaded[i].ts = req[r].since
        /\ Len(resp[r].data) > 0

(* ---------------------------- C10 -------------------------------------- *)
IsSuffix(s, t) ==
    Len(s) <= Len(t) /\ SubSeq(t, Len(t) - Len(s) + 1, Len(t)) = s

Unfiltered(r) ==
    /\ IsEvents(r) /\ Returned(r) /\ resp[r].status = 200
    /\ req[r].cids = <<>> /\ req[r].since = <<>>

\* C10 as claimed: an unfiltered authorized /events request returns every
\* event saved before it loaded, in the order of the saves.
C10_AllInAppendOrder ==
    \A r \in Req : Unfiltered(r) => resp[r].data = obs[r].hist

\* C10 as amended: an unfiltered authorized /events request whose load meets
\* no IOError returns the events of the document as it loaded it, which are
\* the last events saved, in the order of the saves; while no storage
\* operation has failed they are all the events saved.
C10_PersistedInAppendOrder ==
    \A r \in Req :
        Unfiltered(r) =>
            /\ ~obs[r].readFail =>
                  resp[r].data = obs[r].loaded /\ IsSuffix(resp[r].data, obs[r].hist)
            /\ faults = 0 => resp[r].data = obs[r].hist

\* the request returned the start-up event and the events of two /track
\* requests that overlapped
C10_Witness ==
    \E r, q \in Req :
        /\ Unfiltered(r) /\ ~obs[r].readFail
        /\ Len(resp[r].data) = 3
        /\ resp[r].data[2] # resp[r].data[3]
        /\ IsTrack(q) /\ obs[q].overlap

(* ---------------------------- C11 -------------------------------------- *)
\* the string without its leading and trailing spaces
RECURSIVE TrimLeft(_)
TrimLeft(s) == IF s # <<>> /\ Head(s) = " " THEN TrimLeft(Tail(s)) ELSE s

RECURSIVE TrimRight(_)
TrimRight(s) ==
    IF s # <<>> /\ s[Len(s)] = " " THEN TrimRight(SubSeq(s, 1, Len(s) - 1)) ELSE s

Trim(s) == TrimRight(TrimLeft(s))

\* the set of trimmed campaign IDs of the specification: the items between
\* the commas, trimmed, without the empty ones
TrimmedCids(raw) ==
    {Trim(split(raw)[i]) : i \in 1..Len(split(raw))} \ {<<>>}

\* C11: the events a /events request returns are those that the set of
\* trimmed campaign IDs of its cids argument admits; a cids argument with no
\* campaign ID in it (empty, absent, only commas) filters nothing.
C11_TrimmedCids ==
    \A r \in Req :
        (IsEvents(r) /\ Returned(r) /\ resp[r].kind = "json") =>
            resp[r].data =
                QueryFiltered(obs[r].loaded, TrimmedCids(req[r].cids), req[r].since)

(* ---------------------------- C12 -------------------------------------- *)
IsHealth(r) == req[r].route = "health"

\* the request loaded no document, a document it could not read, or one that
\* is no array of events
LoadedNoLog(r) ==
    obs[r].kind \in {"missing", "partial", "object"} \/ obs[r].readFail

\* C12: a request that loads a missing, unreadable or malformed document
\* reads the empty sequence: /events, when authorized, answers 200 with the
\* empty array, /health answers events_count 0, and /track answers the pixel
\* and, when its save writes, leaves an array that ends with the new event.
C12_BadDocumentIsEmpty ==
    \A r \in Req :
        LoadedNoLog(r) =>
            /\ (IsEvents(r) /\ Returned(r)) => resp[r] = Response(200, "json", <<>>, 0)
            /\ (IsHealth(r) /\ Returned(r)) => resp[r] = Response(200, "health", <<>>, 0)
            /\ (IsTrack(r) /\ Returned(r)) => resp[r] = PIXEL_GIF
            /\ (IsTrack(r) /\ pc[r] = "t_unlock" /\ obs[r].wrote) =>
                  doc = Doc("list", <<event[r]>>)

(* ---------------------------- C13 -------------------------------------- *)
\* the request is inside a with events_lock block
InLocked(r) ==
    pc[r] \in {"t_load", "t_open", "t_dump", "t_unlock", "e_load", "e_resp"}

\* C13: mutual exclusion. A request that is between its acquire and its
\* release, a /track request from before its load until after its save, is
\* the holder of events_lock, so no two requests are there at once.
C13_MutualExclusion ==
    /\ \A r \in Req : InLocked(r) => events_lock = r
    /\ \A r, q \in Req : (InLocked(r) /\ InLocked(q)) => r = q

\* a /track request is in the middle of its save while another request waits
C13_Witness ==
    \E r, q \in Req :
        /\ pc[r] = "t_dump"
        /\ pc[q] \in {"t_lock", "e_lock"}

(* ---------------------------- C14 -------------------------------------- *)
Waiting(r) == pc[r] \in {"t_lock", "e_lock"}

LoadedByTrack(r) == SubSeq(events[r].items, 1, Len(events[r].items) - 1)

\* C15: a failed write leaves the log as it was. When the save of a /track
\* request that loaded the log without an IOError has ended without writing
\* the document, the persisted log is the log the request loaded.
C15_FailedWriteKeepsLog ==
    \A r \in Req :
        (pc[r] = "t_unlock" /\ ~obs[r].wrote /\ ~obs[r].readFail) =>
            PersistedLog = LoadedByTrack(r)

(* ---------------------------- C16 -------------------------------------- *)
\* C16: the events_count of /health is the length of the persisted log at
\* an instant of the request, the complete state before or after a
\* concurrent append, never a count of a partially written document: while
\* no storage operation has failed, a returned /health response reports
\* the number of events appended when it read, or one more.
C16_HealthCountsCompleteLog ==
    \A r \in Req :
        (IsHealth(r) /\ Returned(r) /\ faults = 0) =>
            resp[r].count \in {Len(obs[r].hist), Len(obs[r].hist) + 1}

(* ---------------------------- C17 -------------------------------------- *)
\* the clock reading a ts string was formatted from
TimeOf(ts) == CHOOSE t \in 0..MaxClock : isoformat(t) = ts

\* C17: with a non-decreasing clock, the ts values of the persisted log are
\* non-decreasing in storage order, in every reachable state.
C17_TsNonDecreasing ==
    \A i, j \in 1..Len(PersistedLog) :
        i < j => TimeOf(PersistedLog[i].ts) <= TimeOf(PersistedLog[j].ts)
====
